---- MODULE Spec2Model ----
(***************************************************************************)
(* A model of scalibur: the Option hierarchy (Some / Nothing), the Tryable *)
(* hierarchy (Success / Failure), the Try adapter and the singleton        *)
(* decorator that wraps Nothing.                                           *)
(*                                                                         *)
(* Objects live in a heap (a sequence of records, the index is the         *)
(* object's identity).  Every method is an operator from the heap (and the *)
(* singleton wrappers) to the new heap and an outcome: a returned value or *)
(* a raised exception.  An action applies one method and records the call  *)
(* and its outcome in the variable last.                                   *)
(***************************************************************************)
EXTENDS Integers, Sequences, FiniteSets, Bags, TLC

\* ------------------------------------------------------------------ bounds
MaxObjs == 3
MaxVal == 2
MaxIters == 2
MaxOut == 2
MaxLoopObjs == 1
MaxPasses == 2

\* ------------------------------------------------------------------ values
\* A Python value is a tagged pair: None, an int, a bool, or a reference to a
\* heap object.  New stands for an exception object created by a raise
\* statement and kept by nobody.
None == <<"none", 0>>
New == <<"new", 0>>
IntV(n) == <<"int", n>>
Bool(b) == <<"bool", IF b THEN 1 ELSE 0>>
Ref(i) == <<"ref", i>>
IsRef(v) == v[1] = "ref"
Ints == {IntV(n) : n \in 1..MaxVal}

\* The outcome of a call: it returns val, or raises an exception of class exc
\* (val is the exception object when it is one the heap holds).
Ret(v) == [kind |-> "ret", val |-> v, exc |-> ""]
RaiseNew(c) == [kind |-> "raise", val |-> New, exc |-> c]
RaiseObj(h, i) == [kind |-> "raise", val |-> Ref(i), exc |-> h[i].cls]
Arg(v) == [kind |-> "arg", val |-> v, exc |-> ""]

\* ------------------------------------------------------------ class graph
\* The base class of every class the program defines or raises.
Base(c) ==
  CASE c = "Some" -> "Option"
    [] c = "Nothing" -> "Option"
    [] c = "Success" -> "Tryable"
    [] c = "Failure" -> "Tryable"
    [] c = "UnsupportedOperationException" -> "Exception"
    [] c = "NotImplementedError" -> "RuntimeError"
    [] c \in {"RuntimeError", "ValueError", "TypeError", "AttributeError",
              "StopIteration"} -> "Exception"
    [] c \in {"Exception", "KeyboardInterrupt"} -> "BaseException"
    [] OTHER -> "object"

RECURSIVE IsSubclass(_, _)
IsSubclass(c, d) ==
  IF c = d THEN TRUE
  ELSE IF c = "object" THEN FALSE
  ELSE IsSubclass(Base(c), d)

\* isinstance(obj, d) for the heap object at index o.
IsInstance(h, o, d) == IsSubclass(h[o].cls, d)

\* ------------------------------------------------------------------- heap
\* One object: its class, its _value slot (the constructor arguments for a
\* class built through a singleton wrapper), its _has_next slot (only a
\* Success has one; FALSE elsewhere) and, for an exception, its message.
Obj(c, v, hn, m) == [cls |-> c, value |-> v, has_next |-> hn, msg |-> m]
Alloc(h, o) == Append(h, o)
Objs(h, c) == {i \in 1..Len(h) : IsInstance(h, i, c)}
Step(h, s, r) == [h |-> h, s |-> s, r |-> r]

\* --------------------------------------------------------------- singleton
\* The classes handed to the decorator: Nothing (option.py) and K, a client
\* class whose constructor takes any arguments and keeps them.
Decorated == {"Nothing", "K"}
\* The argument lists of a call: none, or one int.
ArgLists == {None} \cup Ints

\* self._cls(*args, **kwargs): Nothing defines no __init__, so any argument
\* is a TypeError; K accepts whatever it is given.
Construct(h, c, args) ==
  IF c = "Nothing" /\ args # None
  THEN Step(h, <<>>, RaiseNew("TypeError"))
  ELSE Step(Alloc(h, Obj(c, args, FALSE, "")), <<>>, Ret(Ref(Len(h) + 1)))

\* _Singleton.apply(cls): one wrapper per class, created with _instance None.
apply(s, c) ==
  IF c \notin DOMAIN s THEN s @@ (c :> None) ELSE s

\* A wrapper that constructs on every call and never reads its cache.
Singleton_call_uncached(h, s, c, args) ==
  LET made == Construct(h, c, args) IN
  IF made.r.kind = "raise"
  THEN Step(h, s, made.r)
  ELSE Step(made.h, [s EXCEPT ![c] = made.r.val], made.r)

\* _Singleton.__call__(*args, **kwargs).
Singleton_call(h, s, c, args) ==
  IF s[c] = None
  THEN LET made == Construct(h, c, args) IN
       IF made.r.kind = "raise"
       THEN Step(h, s, made.r)
       ELSE Step(made.h, [s EXCEPT ![c] = made.r.val], made.r)
  ELSE Step(h, s, Ret(s[c]))

\* The attributes a _Singleton object has: those __init__ sets and those of
\* its class.
SingletonAttrs == {"_cls", "_instance", "_singletons", "apply", "__init__", "__call__"}
HasAttr(name) == name \in SingletonAttrs

\* ------------------------------------------------------------------ Option
\* Option.is_defined.
is_defined(h, o) == Ret(Bool(IsInstance(h, o, "Some")))

\* Option.is_empty: isinstance(self, Nothing.__wrapped__), where the module
\* name Nothing is bound to the _Singleton wrapper.
is_empty(h, o) ==
  IF ~HasAttr("__wrapped__")
  THEN RaiseNew("AttributeError")
  ELSE Ret(Bool(IsInstance(h, o, "Nothing")))

Some_get(h, o) == Ret(h[o].value)
Nothing_get(h, o) == RaiseNew("NotImplementedError")
Option_get(h, o) == IF h[o].cls = "Some" THEN Some_get(h, o) ELSE Nothing_get(h, o)

\* Option.get_or_else(default_value).
Option_get_or_else(h, o, d) ==
  LET e == is_empty(h, o) IN
  IF e.kind = "raise" THEN e
  ELSE IF e.val = Bool(TRUE) THEN Ret(d) ELSE Option_get(h, o)

\* Some(value).
Some(h, v) == Step(Alloc(h, Obj("Some", v, FALSE, "")), <<>>, Ret(Ref(Len(h) + 1)))

\* ----------------------------------------------------------------- Tryable
\* Tryable.is_failure / Tryable.is_success.
is_failure(h, o) == Ret(Bool(IsInstance(h, o, "Failure")))
is_success(h, o) == Ret(Bool(IsInstance(h, o, "Success")))

\* Success(value): Tryable.__init__ stores the value, Success.__init__ sets
\* _has_next.
Success(h, v) == Step(Alloc(h, Obj("Success", v, TRUE, "")), <<>>, Ret(Ref(Len(h) + 1)))

\* Failure(exception).
Failure(h, e) == Step(Alloc(h, Obj("Failure", e, FALSE, "")), <<>>, Ret(Ref(Len(h) + 1)))

\* The statement raise x: x itself when it is an exception object, a
\* TypeError when it is not.
RaiseValue(h, x) ==
  IF IsRef(x) /\ IsInstance(h, x[2], "BaseException")
  THEN RaiseObj(h, x[2])
  ELSE RaiseNew("TypeError")

\* A get that raises a new error of the stored error's class.
Failure_get_fresh(h, o) == RaiseNew(h[h[o].value[2]].cls)

Success_get(h, o) == Ret(h[o].value)
Failure_get(h, o) == RaiseValue(h, h[o].value)
Tryable_get(h, o) == IF h[o].cls = "Success" THEN Success_get(h, o) ELSE Failure_get(h, o)

\* A failed() that tests the wrong variant.
failed_swapped(h, o) ==
  IF is_success(h, o).val = Bool(TRUE)
  THEN Success(h, h[o].value)
  ELSE Failure(Alloc(h, Obj("UnsupportedOperationException", None, FALSE, "Success.failed")),
               Ref(Len(h) + 1))

\* A failed() that moves the payload out of its receiver.
failed_mutating(h, o) ==
  IF is_failure(h, o).val = Bool(TRUE)
  THEN Success([h EXCEPT ![o].value = None], h[o].value)
  ELSE Failure(Alloc(h, Obj("UnsupportedOperationException", None, FALSE, "Success.failed")),
               Ref(Len(h) + 1))

\* Tryable.failed().
failed(h, o) ==
  IF is_failure(h, o).val = Bool(TRUE)
  THEN Success(h, h[o].value)
  ELSE Failure(Alloc(h, Obj("UnsupportedOperationException", None, FALSE, "Success.failed")),
               Ref(Len(h) + 1))

\* Tryable.get_or_else(default_value).
Tryable_get_or_else(h, o, d) ==
  IF is_failure(h, o).val = Bool(TRUE) THEN Ret(d) ELSE Tryable_get(h, o)

\* A to_option() that constructs the undecorated Nothing class itself.
to_option_fresh(h, s, o) ==
  IF is_failure(h, o).val = Bool(TRUE)
  THEN LET made == Construct(h, "Nothing", None) IN Step(made.h, s, made.r)
  ELSE LET made == Some(h, h[o].value) IN Step(made.h, s, made.r)

\* Tryable.to_option(): Nothing() is a call of the singleton wrapper.
to_option(h, s, o) ==
  IF is_failure(h, o).val = Bool(TRUE)
  THEN Singleton_call(h, s, "Nothing", None)
  ELSE LET g == Tryable_get(h, o) IN
       IF g.kind = "raise" THEN Step(h, s, g)
       ELSE LET made == Some(h, g.val) IN Step(made.h, s, made.r)

\* Tryable.__iter__.
Tryable_iter(h, o) == Ret(Ref(o))

\* A __next__ that never clears the flag.
Success_next_endless(h, o) ==
  IF h[o].has_next
  THEN Step(h, <<>>, Ret(h[o].value))
  ELSE Step([h EXCEPT ![o].has_next = TRUE], <<>>, RaiseNew("StopIteration"))

\* A __next__ that does not set the flag again when it signals exhaustion.
Success_next_oneshot(h, o) ==
  IF h[o].has_next
  THEN Step([h EXCEPT ![o].has_next = FALSE], <<>>, Ret(h[o].value))
  ELSE Step(h, <<>>, RaiseNew("StopIteration"))

\* Success.__next__.
Success_next(h, o) ==
  IF h[o].has_next
  THEN Step([h EXCEPT ![o].has_next = FALSE], <<>>, Ret(h[o].value))
  ELSE Step([h EXCEPT ![o].has_next = TRUE], <<>>, RaiseNew("StopIteration"))

\* Failure.__next__.
Failure_next(h, o) == Step(h, <<>>, RaiseNew("StopIteration"))

Tryable_next(h, o) == IF h[o].cls = "Success" THEN Success_next(h, o) ELSE Failure_next(h, o)

\* --------------------------------------------------------------------- Try
\* What the wrapped f does when called: it returns an int, or creates an
\* exception of one of these classes and raises it.
Raised == {"ValueError", "KeyboardInterrupt"}
Behaviours == {Ret(v) : v \in Ints} \cup {RaiseNew(c) : c \in Raised}

\* f(*args, **kwargs): a raising f allocates its exception object.
CallF(h, b) ==
  IF b.kind = "ret" THEN Step(h, <<>>, b)
  ELSE Step(Alloc(h, Obj(b.exc, None, FALSE, "x")), <<>>,
            [kind |-> "raise", val |-> Ref(Len(h) + 1), exc |-> b.exc])

\* A wrapper with a bare except: it captures whatever f raises.
Try_bare_except(h, b) ==
  LET f == CallF(h, b) IN
  IF f.r.kind = "ret" THEN Success(f.h, f.r.val) ELSE Failure(f.h, f.r.val)

\* The wrapper Try(f) returns: try Success(f(...)), except Exception as e
\* Failure(e).
Try(h, b) ==
  LET f == CallF(h, b) IN
  IF f.r.kind = "ret" THEN Success(f.h, f.r.val)
  ELSE IF IsSubclass(f.r.exc, "Exception") THEN Failure(f.h, f.r.val)
  ELSE f

\* ------------------------------------------------------------------- state
\* heap        the objects constructed so far
\* singletons  _Singleton._singletons: decorated class -> its wrapper's _instance
\* iters       the iteration passes in progress (for loops over a Tryable),
\*             a bag: the iterator each one holds and what it has yielded
\* last        the last call made and its outcome
\* History, read by the properties only:
\* born        each object as its constructor left it
\* calls       per decorated class, the arguments of the first call of its
\*             wrapper, and the arguments and the result of the first call
\*             that returned
\* nexts       per object, the number of __next__ calls made on it, modulo 2
\* passes      per object, the number of passes over it that ran to
\*             StopIteration (counted up to MaxPasses) while they have been
\*             consecutive and complete; Disturbed once a pass over it was
\*             abandoned after an element or begun while another pass over
\*             it was in progress
VARIABLES heap, singletons, iters, last, born, calls, nexts, passes
vars == <<heap, singletons, iters, last, born, calls, nexts, passes>>

NoCall == <<"nocall", 0>>
Disturbed == 0 - 1
Pass(it, out) == [obj |-> it, out |-> out]
Without(b, p) == b (-) SetToBag({p})
With(b, p) == b (+) SetToBag({p})
Yielded(n) == <<"yielded", n>>
Call(op, cls, recv, arg, res, out) ==
  [op |-> op, cls |-> cls, recv |-> recv, arg |-> arg, res |-> res, out |-> out]

\* Importing scalibur.option applies the decorator to Nothing.
Init ==
  /\ heap = <<>>
  /\ singletons = apply(<<>>, "Nothing")
  /\ iters = EmptyBag
  /\ last = Call("import", "", 0, Arg(None), Ret(None), <<>>)
  /\ born = <<>>
  /\ calls = [c \in Decorated |-> [first |-> NoCall, ok |-> NoCall, inst |-> None]]
  /\ nexts = <<>>
  /\ passes = <<>>

\* The heap becomes h: the objects it adds are recorded as born, with no
\* __next__ call and no pass yet.
Store(h) ==
  /\ Len(h) <= MaxObjs
  /\ heap' = h
  /\ born' = [i \in 1..Len(h) |-> IF i <= Len(born) THEN born[i] ELSE h[i]]
  /\ nexts' = [i \in 1..Len(h) |-> IF i <= Len(nexts) THEN nexts[i] ELSE 0]
  /\ passes' = [i \in 1..Len(h) |-> IF i <= Len(passes) THEN passes[i] ELSE 0]

\* The wrapper of class c was called with args and the outcome was r.
Logged(c, args, r) ==
  [calls EXCEPT
     ![c].first = IF @ = NoCall THEN args ELSE @,
     ![c].ok = IF calls[c].ok = NoCall /\ r.kind = "ret" THEN args ELSE @,
     ![c].inst = IF calls[c].ok = NoCall /\ r.kind = "ret" THEN r.val ELSE @]

Options == Objs(heap, "Option")
Tryables == Objs(heap, "Tryable")
Errors == Objs(heap, "BaseException")

\* ----------------------------------------------------------------- actions
\* singleton(cls)
Decorate(c) ==
  /\ singletons' = apply(singletons, c)
  /\ last' = Call("singleton", c, 0, Arg(None), Ret(None), <<>>)
  /\ UNCHANGED <<heap, iters, born, calls, nexts, passes>>

\* wrapper(*args) for the wrapper of class c
CallSingleton(c, args) ==
  /\ c \in DOMAIN singletons
  /\ LET st == Singleton_call(heap, singletons, c, args) IN
     /\ Store(st.h)
     /\ singletons' = st.s
     /\ last' = Call("call", c, 0, Arg(args), st.r, <<>>)
     /\ calls' = Logged(c, args, st.r)
  /\ UNCHANGED iters

NewSome(v) ==
  /\ LET st == Some(heap, v) IN
     /\ Store(st.h)
     /\ last' = Call("Some", "", 0, Arg(v), st.r, <<>>)
  /\ UNCHANGED <<singletons, iters, calls>>

NewSuccess(v) ==
  /\ LET st == Success(heap, v) IN
     /\ Store(st.h)
     /\ last' = Call("Success", "", 0, Arg(v), st.r, <<>>)
  /\ UNCHANGED <<singletons, iters, calls>>

NewFailure(e) ==
  /\ LET st == Failure(heap, Ref(e)) IN
     /\ Store(st.h)
     /\ last' = Call("Failure", "", 0, Arg(Ref(e)), st.r, <<>>)
  /\ UNCHANGED <<singletons, iters, calls>>

\* Try(f)(...), where f behaves as b; last.arg is what f did
TryCall(b) ==
  /\ LET st == Try(heap, b) IN
     /\ Store(st.h)
     /\ last' = Call("Try", "", 0, CallF(heap, b).r, st.r, <<>>)
  /\ UNCHANGED <<singletons, iters, calls>>

\* A method that reads only: its outcome is recorded.
Query(op, o, arg, r) ==
  /\ last' = Call(op, "", o, arg, r, <<>>)
  /\ UNCHANGED <<heap, singletons, iters, born, calls, nexts, passes>>

IsDefined(o) == Query("is_defined", o, Arg(None), is_defined(heap, o))
IsEmpty(o) == Query("is_empty", o, Arg(None), is_empty(heap, o))
OptionGet(o) == Query("Option.get", o, Arg(None), Option_get(heap, o))
OptionGetOrElse(o, d) == Query("Option.get_or_else", o, Arg(d), Option_get_or_else(heap, o, d))
IsSuccess(o) == Query("is_success", o, Arg(None), is_success(heap, o))
IsFailure(o) == Query("is_failure", o, Arg(None), is_failure(heap, o))
TryableGet(o) == Query("Tryable.get", o, Arg(None), Tryable_get(heap, o))
TryableGetOrElse(o, d) == Query("Tryable.get_or_else", o, Arg(d), Tryable_get_or_else(heap, o, d))
IterCall(o) == Query("iter", o, Arg(None), Tryable_iter(heap, o))

Failed(o) ==
  /\ LET st == failed(heap, o) IN
     /\ Store(st.h)
     /\ last' = Call("failed", "", o, Arg(None), st.r, <<>>)
  /\ UNCHANGED <<singletons, iters, calls>>

ToOption(o) ==
  /\ LET st == to_option(heap, singletons, o) IN
     /\ Store(st.h)
     /\ singletons' = st.s
     /\ last' = Call("to_option", "", o, Arg(None), st.r, <<>>)
     /\ calls' = IF is_failure(heap, o).val = Bool(TRUE)
                 THEN Logged("Nothing", None, st.r) ELSE calls
  /\ UNCHANGED iters

\* next(o), called directly, outside any for loop (Spec has these calls and
\* no passes, SpecIter has passes and no direct calls).
NextCall(o) ==
  /\ LET st == Tryable_next(heap, o) IN
     /\ heap' = st.h
     /\ last' = Call("next", "", o, Arg(None), st.r, <<>>)
  /\ nexts' = [nexts EXCEPT ![o] = (@ + 1) % 2]
  /\ UNCHANGED <<singletons, iters, born, calls, passes>>

\* A pass begins: iter(o).
IterStart(o) ==
  /\ BagCardinality(iters) < MaxIters
  /\ LET it == Tryable_iter(heap, o).val[2] IN
     /\ iters' = With(iters, Pass(it, <<>>))
     /\ passes' = [passes EXCEPT ![it] =
                     IF \E q \in BagToSet(iters) : q.obj = it THEN Disturbed ELSE @]
     /\ last' = Call("iter", "", o, Arg(None), Tryable_iter(heap, o), <<>>)
  /\ UNCHANGED <<heap, singletons, born, calls, nexts>>

\* The pass p takes its next step: next(it).  StopIteration ends the pass.
\* last.arg is the number of elements the pass had yielded before the call
\* and last.out what it has yielded after it.  (A pass is followed for its
\* first MaxOut elements.)
IterNext(p) ==
  /\ Len(p.out) < MaxOut
  /\ LET it == p.obj
         st == Tryable_next(heap, it)
         out == IF st.r.kind = "ret" THEN Append(p.out, st.r.val) ELSE p.out
     IN
     /\ heap' = st.h
     /\ nexts' = [nexts EXCEPT ![it] = (@ + 1) % 2]
     /\ iters' = IF st.r.kind = "ret" THEN With(Without(iters, p), Pass(it, out))
                 ELSE Without(iters, p)
     /\ last' = Call("next", "", it, Arg(Yielded(Len(p.out))), st.r, out)
     /\ passes' = [passes EXCEPT ![it] =
                     IF st.r.kind = "raise" /\ @ # Disturbed /\ @ < MaxPasses
                     THEN @ + 1 ELSE @]
  /\ UNCHANGED <<singletons, born, calls>>

\* The pass p is abandoned (break) before StopIteration.
IterAbandon(p) ==
  /\ passes' = [passes EXCEPT ![p.obj] = IF p.out # <<>> THEN Disturbed ELSE @]
  /\ last' = Call("break", "", p.obj, Arg(None), Ret(None), p.out)
  /\ iters' = Without(iters, p)
  /\ UNCHANGED <<heap, singletons, born, calls, nexts>>

\* ---------------------------------------------------------- specifications
\* Spec: every public operation of both hierarchies, the Try adapter and
\* Nothing(), called in any order.
Next ==
  \/ CallSingleton("Nothing", None)
  \/ \E v \in Ints : NewSome(v)
  \/ \E v \in Ints : NewSuccess(v)
  \/ \E e \in Errors : NewFailure(e)
  \/ \E b \in Behaviours : TryCall(b)
  \/ \E o \in Options : IsDefined(o)
  \/ \E o \in Options : IsEmpty(o)
  \/ \E o \in Options : OptionGet(o)
  \/ \E o \in Options, d \in Ints : OptionGetOrElse(o, d)
  \/ \E o \in Tryables : IsSuccess(o)
  \/ \E o \in Tryables : IsFailure(o)
  \/ \E o \in Tryables : TryableGet(o)
  \/ \E o \in Tryables, d \in Ints : TryableGetOrElse(o, d)
  \/ \E o \in Tryables : Failed(o)
  \/ \E o \in Tryables : ToOption(o)
  \/ \E o \in Tryables : IterCall(o)
  \/ \E o \in Tryables : NextCall(o)

Spec == Init /\ [][Next]_vars

\* SpecSingleton: the decorator and its wrappers, called directly and by
\* to_option.
NextSingleton ==
  \/ \E c \in Decorated : Decorate(c)
  \/ \E c \in Decorated, args \in ArgLists : CallSingleton(c, args)
  \/ \E b \in Behaviours : TryCall(b)
  \/ \E o \in Tryables : ToOption(o)

SpecSingleton == Init /\ [][NextSingleton]_vars

\* SpecIter: for loops over at most MaxLoopObjs Tryables, begun, stepped and
\* abandoned in any interleaving.
NextIter ==
  \/ \E v \in Ints : Cardinality(Tryables) < MaxLoopObjs /\ NewSuccess(v)
  \/ \E b \in Behaviours : Cardinality(Tryables) < MaxLoopObjs /\ TryCall(b)
  \/ \E o \in Tryables : IterStart(o)
  \/ \E p \in BagToSet(iters) : IterNext(p)
  \/ \E p \in BagToSet(iters) : IterAbandon(p)

SpecIter == Init /\ [][NextIter]_vars

\* ================================================================== claims
Recv == last.recv
Result == last.res.val[2]
Returned == last.res.kind = "ret"

\* ---- C1 (as stated): after any call of a singleton wrapper, the call has
\* returned, what it returned is the one instance of the class, which is the
\* wrapper's cached instance and the result of every earlier call, and that
\* instance was constructed with the arguments of the first call.
C1_EveryCallReturnsTheFirstConstruction ==
  last.op = "call" =>
    /\ Returned
    /\ last.res.val = singletons[last.cls]
    /\ last.res.val = calls[last.cls].inst
    /\ Objs(heap, last.cls) = {Result}
    /\ heap[Result].value = calls[last.cls].first

\* ---- C1 (amended): a wrapper's class is constructed at most once, by the
\* first call that returns and with that call's arguments; every call that
\* returns, returns that one instance, whatever its own arguments; a call that
\* does not return is a call with arguments made to the Nothing wrapper while
\* nothing is cached: it raises the constructor's TypeError and constructs and
\* caches nothing.
C1_SingletonOnce ==
  /\ \A c \in DOMAIN singletons :
       /\ Cardinality(Objs(heap, c)) <= 1
       /\ singletons[c] = calls[c].inst
       /\ singletons[c] # None =>
            /\ Objs(heap, c) = {singletons[c][2]}
            /\ heap[singletons[c][2]].value = calls[c].ok
       /\ singletons[c] = None => Objs(heap, c) = {} /\ calls[c].ok = NoCall
  /\ last.op = "call" =>
       IF Returned
       THEN last.res.val = calls[last.cls].inst
       ELSE /\ last.res = RaiseNew("TypeError")
            /\ last.cls = "Nothing"
            /\ last.arg.val # None
            /\ singletons[last.cls] = None

\* C1 witness: Nothing(n) raised before anything was cached, a later call
\* constructed the instance, and a call with an argument has now returned it.
C1_Witness ==
  /\ last.op = "call" /\ last.cls = "Nothing" /\ Returned
  /\ last.arg.val # None
  /\ calls["Nothing"].first # None
  /\ calls["Nothing"].ok = None
  /\ last.res.val = singletons["Nothing"]

\* ---- C2 (as stated): is_defined returns True exactly for a Some, is_empty
\* returns True exactly for a Nothing, and neither property raises.
C2_DiscriminatorsNeverRaise ==
  /\ last.op = "is_defined" => last.res = Ret(Bool(heap[Recv].cls = "Some"))
  /\ last.op = "is_empty" => last.res = Ret(Bool(heap[Recv].cls = "Nothing"))

\* ---- C3 (as stated): get_or_else(d) returns the wrapped value of a Some or
\* a Success and d for a Nothing or a Failure, and never raises.
C3_GetOrElseNeverFails ==
  /\ last.op = "Option.get_or_else" =>
       last.res = Ret(IF heap[Recv].cls = "Some" THEN heap[Recv].value ELSE last.arg.val)
  /\ last.op = "Tryable.get_or_else" =>
       last.res = Ret(IF heap[Recv].cls = "Success" THEN heap[Recv].value ELSE last.arg.val)

\* ---- C4 (as stated): the callable Try(f) returns never raises: it returns
\* a Success of what f returned, or a Failure storing the very error f raised,
\* whatever the error's type.
C4_TryNeverRaises ==
  last.op = "Try" =>
    /\ Returned
    /\ heap[Result].value = last.arg.val
    /\ heap[Result].cls = (IF last.arg.kind = "ret" THEN "Success" ELSE "Failure")

\* ---- C4 (amended): if f returns r the call returns a Success of r; if f
\* raises an error e that is an instance of Exception the call returns a
\* Failure whose stored error is that same object e; an error that is not an
\* Exception (KeyboardInterrupt, which derives from BaseException alone)
\* crosses the adapter: the call raises that same e and builds no Tryable.
C4_TryCapturesExceptions ==
  last.op = "Try" =>
    IF last.arg.kind = "raise" /\ ~IsSubclass(last.arg.exc, "Exception")
    THEN /\ last.res = last.arg
         /\ Len(heap) = last.arg.val[2]
    ELSE /\ Returned
         /\ Result = Len(heap)
         /\ heap[Result].value = last.arg.val
         /\ heap[Result].cls = (IF last.arg.kind = "ret" THEN "Success" ELSE "Failure")

\* C4 witness: f raised a ValueError and the call returned a Failure storing it.
C4_Witness ==
  /\ last.op = "Try" /\ last.arg.kind = "raise" /\ last.arg.exc = "ValueError"
  /\ Returned /\ heap[Result].cls = "Failure"
  /\ heap[Result].value = last.arg.val
  /\ heap[last.arg.val[2]].cls = "ValueError"

\* ---- C5: get() returns the wrapped value of a Some and of a Success; on
\* the Nothing instance it raises NotImplementedError; on a Failure it raises
\* the very error object the Failure was constructed with.
C5_Get ==
  /\ last.op = "Option.get" =>
       IF heap[Recv].cls = "Some"
       THEN last.res = Ret(born[Recv].value)
       ELSE last.res = RaiseNew("NotImplementedError")
  /\ last.op = "Tryable.get" =>
       IF heap[Recv].cls = "Success"
       THEN last.res = Ret(born[Recv].value)
       ELSE /\ last.res.kind = "raise"
            /\ last.res.val = born[Recv].value
            /\ last.res.exc = heap[born[Recv].value[2]].cls

\* C5 witness: get() on a Failure has raised the error stored in it.
C5_Witness ==
  /\ last.op = "Tryable.get" /\ heap[Recv].cls = "Failure"
  /\ last.res.kind = "raise" /\ last.res.val = heap[Recv].value
  /\ IsInstance(heap, last.res.val[2], "BaseException")

\* ---- C6: failed() returns, without raising, a new instance of the other
\* variant: for a Failure a Success whose value is the stored error, for a
\* Success a Failure whose stored error is an UnsupportedOperationException
\* with the message "Success.failed".
C6_Failed ==
  last.op = "failed" =>
    /\ Returned
    /\ Result = Len(heap) /\ Result # Recv
    /\ IF heap[Recv].cls = "Failure"
       THEN /\ heap[Result].cls = "Success"
            /\ heap[Result].value = heap[Recv].value
       ELSE /\ heap[Result].cls = "Failure"
            /\ IsRef(heap[Result].value)
            /\ heap[heap[Result].value[2]].cls = "UnsupportedOperationException"
            /\ heap[heap[Result].value[2]].msg = "Success.failed"

\* C6 witness: failed() on a Success has returned the Failure.
C6_Witness ==
  /\ last.op = "failed" /\ heap[Recv].cls = "Success"
  /\ Returned /\ heap[Result].cls = "Failure"
  /\ heap[heap[Result].value[2]].msg = "Success.failed"

\* ---- C7: to_option() never raises; on a Success it returns a Some wrapping
\* the Success's value; on a Failure it returns the Nothing instance, which
\* is the only instance of Nothing there is: the one the wrapper caches and
\* every call of the wrapper returns.
C7_ToOption ==
  last.op = "to_option" =>
    /\ Returned
    /\ IF heap[Recv].cls = "Success"
       THEN /\ heap[Result].cls = "Some"
            /\ heap[Result].value = heap[Recv].value
       ELSE /\ heap[Result].cls = "Nothing"
            /\ heap[Result].value = None
            /\ last.res.val = singletons["Nothing"]
            /\ last.res.val = calls["Nothing"].inst
            /\ Objs(heap, "Nothing") = {Result}

\* C7 witness: to_option() on a Failure has returned a Nothing instance that
\* is older than the Failure.
C7_Witness ==
  /\ last.op = "to_option" /\ heap[Recv].cls = "Failure"
  /\ Returned /\ heap[Result].cls = "Nothing"
  /\ Result < Recv

\* ---- C8: while the passes over a Success have been consecutive and
\* complete, a pass in progress has yielded nothing and the value is next, or
\* has yielded the value and StopIteration is next, and a pass that has ended
\* has yielded exactly the value; a pass over a Failure ends at its first step
\* having yielded nothing.
C8_Passes ==
  /\ \A p \in BagToSet(iters) :
       IF heap[p.obj].cls = "Failure" THEN p.out = <<>>
       ELSE passes[p.obj] # Disturbed =>
              \/ p.out = <<>> /\ heap[p.obj].has_next
              \/ p.out = <<heap[p.obj].value>> /\ ~heap[p.obj].has_next
  /\ last.op = "next" /\ ~Returned =>
       /\ last.res = RaiseNew("StopIteration")
       /\ heap[Recv].cls = "Failure" => last.out = <<>> /\ last.arg = Arg(Yielded(0))
       /\ heap[Recv].cls = "Success" /\ passes[Recv] # Disturbed =>
            last.out = <<heap[Recv].value>>

\* C8 witness: a second consecutive complete pass over a Success has ended,
\* having yielded the value.
C8_Witness ==
  /\ last.op = "next" /\ ~Returned
  /\ heap[Recv].cls = "Success"
  /\ passes[Recv] >= 2
  /\ last.out = <<heap[Recv].value>>

\* ---- C9 (as stated): every field of a Tryable is as its constructor left
\* it, whatever operations have been applied, and exactly one of is_success
\* and is_failure holds.
C9_EveryFieldAsConstructed ==
  \A o \in Tryables :
    /\ heap[o] = born[o]
    /\ is_success(heap, o) # is_failure(heap, o)

\* ---- C9 (amended): the variant and the _value of a Tryable are as its
\* constructor left them, and exactly one of is_success and is_failure holds,
\* always the same one; no field of a Failure changes; the one field that
\* changes is a Success's _has_next, which __next__ toggles: it differs from
\* its constructed value exactly after an odd number of __next__ calls.
C9_VariantAndValueFrozen ==
  \A o \in Tryables :
    /\ heap[o].cls = born[o].cls
    /\ heap[o].value = born[o].value
    /\ heap[o].msg = born[o].msg
    /\ is_success(heap, o) # is_failure(heap, o)
    /\ is_success(heap, o) = Ret(Bool(born[o].cls = "Success"))
    /\ heap[o].cls = "Failure" => heap[o] = born[o]
    /\ heap[o].cls = "Success" => (heap[o].has_next = born[o].has_next <=> nexts[o] = 0)

\* C9 witness: failed() has been applied to a Success after an odd number of
\* __next__ calls: its _has_next has changed, its variant and value have not.
C9_Witness ==
  /\ last.op = "failed" /\ heap[Recv].cls = "Success"
  /\ nexts[Recv] = 1 /\ ~heap[Recv].has_next /\ born[Recv].has_next
  /\ heap[Recv].value = born[Recv].value
  /\ Returned /\ heap[Result].cls = "Failure"

\* ---- C10: iter(s) is s; _has_next of a Success is True exactly when the
\* number of __next__ calls made on it is even; an odd-numbered call returns
\* the value and an even-numbered one raises StopIteration; so a pass whose
\* first step comes after an odd number of calls ends there, with nothing
\* yielded.
C10_SharedCursor ==
  /\ \A o \in Tryables : heap[o].cls = "Success" => (heap[o].has_next <=> nexts[o] = 0)
  /\ last.op = "iter" => last.res = Ret(Ref(Recv))
  /\ last.op = "next" /\ heap[Recv].cls = "Success" =>
       /\ last.res = (IF nexts[Recv] = 1 THEN Ret(heap[Recv].value)
                      ELSE RaiseNew("StopIteration"))
       /\ last.arg = Arg(Yielded(0)) /\ nexts[Recv] = 0 => last.out = <<>>

\* C10 witness: the first step of a pass over a Success came after an odd
\* number of __next__ calls, and the pass ended with nothing yielded.
C10_Witness ==
  /\ last.op = "next" /\ heap[Recv].cls = "Success"
  /\ last.arg = Arg(Yielded(0)) /\ nexts[Recv] = 0
  /\ ~Returned /\ last.out = <<>>

====
